---- MODULE Spec2Model ----
(***************************************************************************)
(* ROYAL_Stats: the hand-ledger reconstructor of parsers/hand_history.py   *)
(* (pot building, winner assignment, elimination detection, knockout       *)
(* attribution), the bounty decomposer of parsers/tournament_summary.py,   *)
(* and the batch run and its Worker of ui/main_window.py.                  *)
(*                                                                         *)
(* The specifications share the variables:                                 *)
(*   SpecPots      _build_pots and _assign_winners as pure functions,       *)
(*                 their inputs drawn from bounded sets;                    *)
(*   SpecFile      the loop of HandHistoryParser.parse_file over hands;     *)
(*   SpecRerun     the same loop with the attribution run a second time;    *)
(*   SpecBounty    TournamentSummaryParser.parse_file with the bounty       *)
(*                 decomposition;                                           *)
(*   SpecDecompose _calculate_large_knockouts on its own;                   *)
(*   SpecActions   _parse_actions line by line, then _build_pots;           *)
(*   SpecHand      _parse_file and _parse_hand over the lines of a text;    *)
(*   SpecBatch     process_files and get_knockouts_from_multiple_files;     *)
(*   SpecWorker    Worker.run interleaved with Worker.cancel.               *)
(*                                                                         *)
(* A Python dict is a function whose DOMAIN is its key set.  Money amounts  *)
(* (Python floats holding currency) are integers in one fixed unit: the     *)
(* decomposition only compares, floor-divides and subtracts multiples, and  *)
(* float rounding is not modelled.  A hand identifier "hand-<idx>" is idx.  *)
(***************************************************************************)
EXTENDS Integers, Sequences, FiniteSets, TLC

VARIABLES
    pc,            \* position of the running operation
    contrib,       \* Hand.contrib: player -> chips put in
    collects,      \* Hand.collects: player -> chips collected
    pots,          \* Hand.pots: sequence of [size, eligible, winners], build order
    seats,         \* keys of Hand.seats of hands[idx]
    nxt,           \* next_hand: Some(keys of hands[idx+1].seats), or NoHand
    idx,           \* loop index of parse_file
    hands_count,   \* hands parsed so far; len(hands) once nxt = NoHand
    eliminated,    \* result of _eliminated for hands[idx]
    ko_count,      \* result of _ko_in_hand for hands[idx]
    knockouts,     \* result['knockouts']
    ts,            \* locals of TournamentSummaryParser.parse_file, a record
    lines,         \* the lines of a hand-history text being scanned
    pos,           \* the scan index into lines (1-based), or lines read so far
    line,          \* the line _parse_actions is handling, or has just handled
    committed,     \* committed of _parse_actions: player -> chips committed
    hands,         \* hands of _parse_file: the Hand objects built so far
    batch,         \* locals of MainWindow.process_files, a record
    worker         \* a Worker: its flag, the signals emitted, the cancel() calls

potVars  == <<contrib, collects, pots>>
fileVars == <<seats, nxt, idx, hands_count, eliminated, ko_count, knockouts>>
scanVars == <<lines, pos, line, committed, hands>>
vars     == <<pc, contrib, collects, pots, seats, nxt, idx, hands_count,
              eliminated, ko_count, knockouts, ts, lines, pos, line,
              committed, hands, batch, worker>>

\* ------------------------------------------------------------------ bounds
MaxContrib == 2     \* largest contribution of one player
MaxReturn  == 1     \* largest net uncalled return (a negative contribution)
MaxCollect == 2     \* largest collected amount of one player
MaxPots    == 1     \* longest pot list handed directly to _assign_winners
MaxPotSize == 1     \* largest size of a pot in such a list
MaxHands   == 2     \* most hands in one hand-history file
MaxPlace   == 4     \* largest parsed finish place
MaxPlayers == 3     \* largest parsed player count
MaxBuyIn   == 2     \* largest parsed buy-in
MaxDigit   == 2     \* prizes are sums of at most MaxDigit of each tier unit
MaxLines   == 3     \* most lines handed to _parse_actions on its own
MaxAmt     == 2     \* largest amount written on such a line
MaxDocs    == 2     \* most documents in one batch
MaxProgress == 2    \* most progress signals a task emits
MaxCancels == 2     \* most calls of cancel() on one Worker

Hero    == "Hero"
Players == {"Hero", "A", "B"}

\* Optional[Hand], of which the loop reads the seats only
NoHand     == [some |-> FALSE, seats |-> {}]
SomeHand(S) == [some |-> TRUE, seats |-> S]

\* ------------------------------------------------------------------ helpers
\* dict.get(p, default)
Get(d, p, default) == IF p \in DOMAIN d THEN d[p] ELSE default

EmptyDict == [p \in {} |-> 0]

\* every dict with keys among Players and values in lo..hi
Ledgers(lo, hi) == UNION {[S -> lo..hi] : S \in SUBSET Players}

RECURSIVE SumDict(_)
SumDict(d) ==
    IF DOMAIN d = {} THEN 0
    ELSE LET p == CHOOSE q \in DOMAIN d : TRUE
         IN d[p] + SumDict([q \in DOMAIN d \ {p} |-> d[q]])

RECURSIVE SumSizes(_)
SumSizes(ps) ==
    IF ps = <<>> THEN 0 ELSE Head(ps).size + SumSizes(Tail(ps))

SetMin(S) == CHOOSE x \in S : \A y \in S : x <= y

Min2(a, b) == IF a <= b THEN a ELSE b
Max2(a, b) == IF a >= b THEN a ELSE b

\* the orders in which iterating a Python set may yield its elements
Orders(S) ==
    {s \in [1..Cardinality(S) -> S] : \A i, j \in DOMAIN s : i # j => s[i] # s[j]}

\* Pot.__init__
Pot(size, eligible) == [size |-> size, eligible |-> eligible, winners |-> {}]

\* ------------------------------------------------------------------ _build_pots
\* LayerSize with a slip: the layer is not multiplied by the number of players
LayerSize_NoCount(layer, elig) == layer

\* size = layer * len(elig)
LayerSize(layer, elig) == layer * Cardinality(elig)

\* Eligible with a slip: a player who put in exactly the level is left out
Eligible_Above(c, lv) == {p \in DOMAIN c : c[p] > lv}

\* Eligible with a slip: every player of the ledger is eligible for every pot
Eligible_All(c, lv) == DOMAIN c

\* elig = {p for p, a in contrib.items() if a >= lv}
Eligible(c, lv) == {p \in DOMAIN c : c[p] >= lv}

\* the loop over the sorted distinct positive levels
RECURSIVE BuildLayers(_, _, _)
BuildLayers(c, levels, prev) ==
    IF levels = {} THEN <<>>
    ELSE LET lv    == SetMin(levels)
             elig  == Eligible(c, lv)
             layer == lv - prev
             size  == LayerSize(layer, elig)
         IN <<Pot(size, elig)>> \o BuildLayers(c, levels \ {lv}, lv)

\* Levels with a slip: every distinct value is a level, positive or not
Levels_All(c) == {c[p] : p \in DOMAIN c}

\* levels = sorted({v for v in contrib.values() if v > 0}), as a set
Levels(c) == {v \in {c[p] : p \in DOMAIN c} : v > 0}

BuildPots(c) ==
    IF DOMAIN c = {} THEN <<>>
    ELSE BuildLayers(c, Levels(c), 0)

\* ------------------------------------------------------------------ _assign_winners
\* sorted(pots, key=lambda p: len(p.eligible)): the indices of ps in the order
\* a stable sort by eligible-set size visits them
RECURSIVE SortedFrom(_, _)
SortedFrom(ps, left) ==
    IF left = {} THEN <<>>
    ELSE LET i == CHOOSE k \in left : \A j \in left :
                      \/ Cardinality(ps[k].eligible) < Cardinality(ps[j].eligible)
                      \/ /\ Cardinality(ps[k].eligible) = Cardinality(ps[j].eligible)
                         /\ k <= j
         IN <<i>> \o SortedFrom(ps, left \ {i})

SortedIdx(ps) == SortedFrom(ps, DOMAIN ps)

\* the inner loop "for p in pot.eligible", visiting the players in order ord
\* from position i on; st = [winners, remaining, pot_left]
RECURSIVE TakeLoop(_, _, _)
TakeLoop(ord, i, st) ==
    IF i > Len(ord) THEN st
    ELSE LET p    == ord[i]
             r    == Get(st.remaining, p, 0)
             take == Min2(r, st.pot_left)
         IN IF r <= 0 \/ st.pot_left <= 0 THEN TakeLoop(ord, i + 1, st)
            ELSE IF take > 0
                 THEN TakeLoop(ord, i + 1,
                        [winners   |-> st.winners \cup {p},
                         remaining |-> [st.remaining EXCEPT ![p] = @ - take],
                         pot_left  |-> st.pot_left - take])
                 ELSE TakeLoop(ord, i + 1, st)

\* Residual with a slip: leftover chips are given to nobody
Residual_Dropped(st, ord) == st

\* "if pot_left > 0 and pot.eligible: pot.winners.add(next(iter(pot.eligible)))"
Residual(st, ord) ==
    IF st.pot_left > 0 /\ Len(ord) > 0
    THEN [st EXCEPT !.winners = @ \cup {ord[1]}]
    ELSE st

\* one iteration of the loop over the sorted pots
AssignPot(pot, remaining, ord) ==
    Residual(TakeLoop(ord, 1, [winners   |-> pot.winners,
                               remaining |-> remaining,
                               pot_left  |-> pot.size]), ord)

\* every pot list _assign_winners can leave behind, from position k of the
\* sorted order on; the iteration order of each eligible set is free
RECURSIVE AssignFrom(_, _, _, _)
AssignFrom(ps, order, k, remaining) ==
    IF k > Len(order) THEN {ps}
    ELSE LET i == order[k]
         IN UNION { LET st == AssignPot(ps[i], remaining, ord)
                    IN AssignFrom([ps EXCEPT ![i].winners = st.winners],
                                  order, k + 1, st.remaining)
                    : ord \in Orders(ps[i].eligible) }

AssignWinners(ps, coll) == AssignFrom(ps, SortedIdx(ps), 1, coll)

\* ------------------------------------------------------------------ _eliminated
\* Seat lines come in seat-number order, so the keys of Hand.seats (a set here)
\* are iterated in table order.
TableOrder == <<"Hero", "A", "B">>

InSeatOrder(S) == SelectSeq(TableOrder, LAMBDA p : p \in S)

\* Eliminated with a slip: no test for a missing next hand
Eliminated_NoNoneTest(curr, next) == InSeatOrder({p \in curr : p \notin next.seats})

Eliminated(curr, next) ==
    IF ~next.some THEN <<>>
    ELSE InSeatOrder({p \in curr : p \notin next.seats})

\* ------------------------------------------------------------------ _ko_in_hand
\* player_pot.get(p): the index in ps of the first pot of the ascending
\* eligible-size scan that p is eligible for, 0 when there is none
RECURSIVE FirstPot(_, _, _, _)
FirstPot(ps, order, k, p) ==
    IF k > Len(order) THEN 0
    ELSE IF p \in ps[order[k]].eligible THEN order[k]
    ELSE FirstPot(ps, order, k + 1, p)

PlayerPot(ps, p) == FirstPot(ps, SortedIdx(ps), 1, p)

\* PotsAfterKo with a slip: the pots are sorted in place
PotsAfterKo_SortedInPlace(ps) == [i \in DOMAIN ps |-> ps[SortedIdx(ps)[i]]]

\* hand.pots once _ko_in_hand has returned: line 382 sorts a copy (sorted()),
\* and nothing else of lines 108-156 writes to the hand
PotsAfterKo(ps) == ps

KoInHand(ps, elim, hero) ==
    IF elim = <<>> THEN 0
    ELSE Cardinality({i \in DOMAIN elim :
                        /\ PlayerPot(ps, elim[i]) # 0
                        /\ hero \in ps[PlayerPot(ps, elim[i])].winners})

\* ------------------------------------------------------------------ parse_file
\* lines 136-153: the facts appended for one eliminated player
RECURSIVE FactsOfPlayer(_, _, _, _, _)
FactsOfPlayer(ps, k, player, coll, hid) ==
    IF k > Len(ps) THEN <<>>
    ELSE (IF player \in ps[k].eligible /\ Hero \in ps[k].winners
          THEN <<[hand_id            |-> hid,
                  knocked_out_player |-> player,
                  pot_size           |-> Get(coll, Hero, 0),
                  multi_knockout     |-> Cardinality(ps[k].winners) > 1]>>
          ELSE <<>>)
         \o FactsOfPlayer(ps, k + 1, player, coll, hid)

\* lines 132-153: the facts appended for one hand
RECURSIVE FactsOfHand(_, _, _, _, _)
FactsOfHand(ps, elim, i, coll, hid) ==
    IF i > Len(elim) THEN <<>>
    ELSE FactsOfPlayer(ps, 1, elim[i], coll, hid)
         \o FactsOfHand(ps, elim, i + 1, coll, hid)

HandKnockouts(ps, elim, kos, coll, hid) ==
    IF kos > 0 THEN FactsOfHand(ps, elim, 1, coll, hid) ELSE <<>>

\* ------------------------------------------------------------------ tournament_summary.py
\* the multipliers in the order _calculate_large_knockouts extracts them
Tiers == <<10000, 1000, 100, 10, 2>>

\* CorrectedPlayers with a slip: the parsed count is used as it is
CorrectedPlayers_Uncorrected(players_parsed, finish_place) == players_parsed

\* parse_file, lines 159-179: the player count the summary is built with
CorrectedPlayers(players_parsed, finish_place) ==
    LET first == IF players_parsed = 0 THEN finish_place
                 ELSE IF players_parsed < finish_place THEN finish_place
                 ELSE players_parsed
    IN IF ~(1 <= finish_place /\ finish_place <= first) THEN finish_place ELSE first

\* CorrectionWarnings with a slip: the correction is made silently
CorrectionWarnings_Silent(players_parsed, finish_place) == 0

\* the logger.warning calls of lines 159-167
CorrectionWarnings(players_parsed, finish_place) ==
    IF players_parsed = 0 \/ players_parsed < finish_place THEN 1 ELSE 0

ComputeBasePayout(place, buy_in) ==
    IF place = 1 THEN 4 * buy_in
    ELSE IF place = 2 THEN 3 * buy_in
    ELSE IF place = 3 THEN 2 * buy_in
    ELSE 0

\* BountyTotal with a slip: the difference is not floored at zero
BountyTotal_Unfloored(prize_total, base_payout) == prize_total - base_payout

\* line 185
BountyTotal(prize_total, base_payout) == Max2(prize_total - base_payout, 0)

\* line 297
MaxPossibleKos(players) == Max2(0, players - 1)

\* OnePrice with a slip: the multiplier is taken as the price of one knockout
OnePrice_NoBuyIn(buy_in, multiplier) == multiplier

\* line 303
OnePrice(buy_in, multiplier) == buy_in * multiplier

\* Python's a // b for b # 0: the floor of the quotient, whatever the signs
FloorDiv(a, b) ==
    IF b > 0 THEN a \div b ELSE (0 - a) \div (0 - b)

\* ExtractQty with a slip: no clamp; max in place of min
ExtractQty_Unclamped(cnt_bounty, one_price, max_possible_kos) ==
    FloorDiv(cnt_bounty, one_price)

ExtractQty_Max(cnt_bounty, one_price, max_possible_kos) ==
    Max2(FloorDiv(cnt_bounty, one_price), max_possible_kos)

\* line 308
ExtractQty(cnt_bounty, one_price, max_possible_kos) ==
    Min2(FloorDiv(cnt_bounty, one_price), max_possible_kos)

\* NoBuyIn with a slip: only a buy-in of exactly zero is caught
NoBuyIn_ZeroOnly(buy_in) == buy_in = 0

\* line 301: "if buy_in <= 0"
NoBuyIn(buy_in) == buy_in <= 0

\* _extract: <<qty, what is left of cnt_bounty>>
Extract(cnt_bounty, multiplier, buy_in, max_possible_kos) ==
    IF NoBuyIn(buy_in) THEN <<0, cnt_bounty>>
    ELSE LET one_price == OnePrice(buy_in, multiplier)
         IN IF one_price = 0 THEN <<0, cnt_bounty>>
            ELSE LET qty == ExtractQty(cnt_bounty, one_price, max_possible_kos)
                 IN <<qty, cnt_bounty - qty * one_price>>

\* TournamentSummary.__post_init__ returns without raising
PostInitOk(finish_place, players) == (1 <= finish_place) /\ ~(players < 1)

\* what parse_file has computed so far: block tells which search of lines
\* 135-146 finds a finish block in the text ("hero": hero_pattern matches;
\* "other": only _FINISH_RE matches, on a line that does not name the hero;
\* "none": neither matches), finish_place and prize_total are the groups of
\* that block, k are the counts extracted so far in the order of Tiers, rems
\* the successive values of the remaining bounty (rems[1] the bounty,
\* rems[t+1] what the t-th _extract call returned), summary the returned
\* TournamentSummary (at most one)
NewTs(place, prize, buy_in, players_parsed) ==
    [block          |-> "hero",
     finish_place   |-> place,
     prize_total    |-> prize,
     buy_in         |-> buy_in,
     players_parsed |-> players_parsed,
     players        |-> 0,
     warnings       |-> 0,
     base_payout    |-> 0,
     bounty_total   |-> 0,
     k              |-> <<>>,
     rems           |-> <<>>,
     summary        |-> <<>>]

NoTs == NewTs(0, 0, 0, 0)

\* a summary text as the searches of parse_file see it
Doc(block, place, prize, buy_in, players_parsed) ==
    [NewTs(place, prize, buy_in, players_parsed) EXCEPT !.block = block]

\* ------------------------------------------------------------------ lines of a text
\* An amount as a regular-expression group yields it: absent (the group is
\* None), a number written with digits and separators, or a token that
\* int() rejects once the separators are stripped (separators only).
NoTok  == [t |-> "none", n |-> 0]
BadTok == [t |-> "bad", n |-> 0]
Num(n) == [t |-> "num", n |-> n]

\* _chip: int(s.replace(',', '')) if s else 0; ChipRaises when int() raises
ChipRaises(tok) == tok.t = "bad"
Chip(tok) == IF tok.t = "num" THEN tok.n ELSE 0

\* A line of a hand text, by what the patterns of __init__ see in it.
\*   kind   "action": "<p>: <act> ..." with act one of the words of re_action;
\*          "uncalled": "Uncalled bet (<amt>) returned to <p>";
\*          "collected": "<p> collected <amt> from pot";
\*          "seat": "Seat <k>: <p> (<amt> in chips)";
\*          "header", "hole", "showdown", "summary", "blank": the markers;
\*          "other": any other non-blank line
\*   amt    the amount written on the line (for "raises X to Y", X)
\*   glued  the amount follows the action word with nothing between them but
\*          a separator ("posts,100"), not after a space ("posts 100")
\*   to     the Y of "to Y"
Line(kind, p, act, amt, glued, to) ==
    [kind |-> kind, p |-> p, act |-> act, amt |-> amt, glued |-> glued, to |-> to]

Marker(kind) == Line(kind, "", "", NoTok, FALSE, NoTok)
NoLine       == Marker("none")

ActLine(p, act, amt)   == Line("action", p, act, amt, FALSE, NoTok)
GluedLine(p, act, amt) == Line("action", p, act, amt, TRUE, NoTok)
RaiseLine(p, x, y)     == Line("action", p, "raises", x, FALSE, y)
UncalledLine(p, amt)   == Line("uncalled", p, "", amt, FALSE, NoTok)
CollectedLine(p, amt)  == Line("collected", p, "", amt, FALSE, NoTok)
SeatLine(p, amt)       == Line("seat", p, "", amt, FALSE, NoTok)

\* the actions that add their amount
AddingActs == {"posts", "bets", "calls", "all-in"}
Acts       == AddingActs \cup {"raises", "checks", "folds"}

\* group "amt" of re_action.  After the action word and \b the lazy (?:.*?)
\* matches nothing and the optional group is tried right there: it takes the
\* amount only if the amount starts at that very place, and is None otherwise.
AmtGroup(l) == IF l.glued THEN l.amt ELSE NoTok

\* group 1 of re_raise_to ("raises [\d,]+ to ([\d,]+)") searched in the line,
\* NoTok when there is no match
RaiseTo(l) ==
    IF l.act = "raises" /\ ~l.glued /\ l.amt.t # "none" THEN l.to ELSE NoTok

\* d[p] = v
Put(d, p, v) == [q \in DOMAIN d \cup {p} |-> IF q = p THEN v ELSE d[q]]

\* both dicts of _parse_actions, and whether the scan is still running
\* (raised: a ValueError left _chip)
Acc(c, k)    == [contrib |-> c, committed |-> k, raised |-> FALSE]
Raised(c, k) == [contrib |-> c, committed |-> k, raised |-> TRUE]

\* AddBoth with a slip: the committed total is left as it was
AddBoth_ContribOnly(c, k, p, v) ==
    Acc(Put(c, p, Get(c, p, 0) + v), k)

\* lines 261-262 and 272-273: both totals move by v
AddBoth(c, k, p, v) ==
    Acc(Put(c, p, Get(c, p, 0) + v), Put(k, p, Get(k, p, 0) + v))

\* one iteration of the while loop of _parse_actions, lines 254-285
ParseActionsLine(l, c, k) ==
    IF l.kind = "uncalled"
    THEN IF ChipRaises(l.amt) THEN Raised(c, k)
         ELSE AddBoth(c, k, l.p, 0 - Chip(l.amt))
    ELSE IF l.kind = "action"
    THEN IF ChipRaises(AmtGroup(l)) THEN Raised(c, k)
         ELSE IF l.act \in AddingActs
              THEN AddBoth(c, k, l.p, Chip(AmtGroup(l)))
         ELSE IF l.act = "raises"
              THEN IF RaiseTo(l).t = "none" THEN Acc(c, k)
                   ELSE IF ChipRaises(RaiseTo(l)) THEN Raised(c, k)
                   ELSE LET total_to == Chip(RaiseTo(l))
                            prev     == Get(k, l.p, 0)
                            diff     == total_to - prev
                        IN Acc(Put(c, l.p, Get(c, l.p, 0) + diff),
                               Put(k, l.p, total_to))
         ELSE Acc(c, k)
    ELSE Acc(c, k)

\* ------------------------------------------------------------------ idle groups
IdleScan ==
    /\ lines = <<>> /\ pos = 0 /\ line = NoLine
    /\ committed = EmptyDict /\ hands = <<>>

\* the locals of a batch run over the documents docs: which loop runs it
\* (entry), the two lists of the first pass of process_files (indices into
\* docs), the index of the running loop, and what has happened so far: the
\* documents whose parse was started, those saved, results['errors'] (a
\* document index, or 0 for the statistics update), the documents with a
\* failure that was only logged or printed; cancel is the flag is_cancelled()
\* reads, cancelled is results['cancelled'], stats tells whether the session
\* and overall statistics were recomputed
NewBatch(entry, docs) ==
    [entry    |-> entry,
     docs     |-> docs,
     ts_files |-> <<>>,
     hh_files |-> <<>>,
     i        |-> 1,
     parsed   |-> <<>>,
     saved    |-> {},
     errors   |-> <<>>,
     logged   |-> {},
     cancel   |-> FALSE,
     cancelled |-> FALSE,
     stats    |-> FALSE]

NoBatch == NewBatch("none", <<>>)
IdleBatch == batch = NoBatch

\* Worker.__init__: the flag is clear; nothing was emitted, the task function
\* has not returned, cancel() was not called
NewWorker ==
    [is_cancelled |-> FALSE,
     emitted      |-> <<>>,
     progress     |-> 0,
     at_return    |-> "running",
     cancels      |-> 0,
     in_cancel    |-> FALSE]

IdleWorker == worker = NewWorker

\* ================================================================== SpecPots
\* _build_pots and _assign_winners on inputs drawn from bounded sets: either a
\* contribution ledger to build the pots from, or a pot list given directly.
GivenPots == {Pot(sz, e) : sz \in 0..MaxPotSize, e \in SUBSET Players}
PotLists  == UNION {[1..n -> GivenPots] : n \in 0..MaxPots}

IdleFile ==
    /\ seats = {} /\ nxt = NoHand /\ idx = 0 /\ hands_count = 0
    /\ eliminated = <<>> /\ ko_count = 0 /\ knockouts = <<>>

InitPots ==
    /\ \/ /\ pc = "ledger"
          /\ contrib \in Ledgers(0 - MaxReturn, MaxContrib)
          /\ pots = <<>>
       \/ /\ pc = "potlist"
          /\ contrib = EmptyDict
          /\ pots \in PotLists
    /\ collects \in Ledgers(0, MaxCollect)
    /\ IdleFile
    /\ ts = NoTs
    /\ IdleScan /\ IdleBatch /\ IdleWorker

\* pots = self._build_pots(contrib)
BuildPotsStep ==
    /\ pc = "ledger"
    /\ pots' = BuildPots(contrib)
    /\ pc' = "built"
    /\ UNCHANGED <<contrib, collects, fileVars, ts>>
    /\ UNCHANGED <<scanVars, batch, worker>>

\* self._assign_winners(pots, collects)
AssignWinnersStep ==
    /\ pc \in {"built", "potlist"}
    /\ pots' \in AssignWinners(pots, collects)
    /\ pc' = "assigned"
    /\ UNCHANGED <<contrib, collects, fileVars, ts>>
    /\ UNCHANGED <<scanVars, batch, worker>>

NextPots == BuildPotsStep \/ AssignWinnersStep

SpecPots == InitPots /\ [][NextPots]_vars

\* ================================================================== SpecFile
\* The loop of HandHistoryParser.parse_file (lines 107-158) as a function of
\* the list of hands it runs over: the hands are its input, each one a Hand as
\* _build_pots and _assign_winners make it from a contribution ledger and a
\* collection ledger.  (What _parse_hand reads out of a text is SpecHand.)  The
\* loop at index idx reads hands[idx] and the seats of hands[idx+1] only, so
\* each hand is drawn when the loop reaches it, together with the seats of the
\* hand after it (NoHand past the last one, which is how len(hands) becomes
\* known).  Before ParseHand nxt describes hands[idx], after it hands[idx+1].
\* Only seated players act or collect, no more is collected than the pots
\* hold, and no player joins the table between two hands of a file.
HandLedgers(S, hi) == UNION {[T -> 1..hi] : T \in SUBSET S}

HandCollects(S, total) == {co \in HandLedgers(S, total) : SumDict(co) <= total}

SeatChoices == {SomeHand(S) : S \in SUBSET Players}

InitFile ==
    /\ pc = "hand"
    /\ idx = 0
    /\ hands_count = 0
    /\ nxt \in {NoHand} \cup SeatChoices
    /\ seats = {} /\ contrib = EmptyDict /\ collects = EmptyDict /\ pots = <<>>
    /\ eliminated = <<>> /\ ko_count = 0 /\ knockouts = <<>>
    /\ ts = NoTs
    /\ IdleScan /\ IdleBatch /\ IdleWorker

\* hands[idx], a Hand(seats, contrib, collects, pots) with its pots built and
\* its winners assigned (lines 233-236)
ParseHand ==
    /\ pc = "hand"
    /\ nxt.some
    /\ seats' = nxt.seats
    /\ nxt' \in (IF idx + 1 < MaxHands
                 THEN {NoHand} \cup {SomeHand(S) : S \in SUBSET nxt.seats}
                 ELSE {NoHand})
    /\ hands_count' = hands_count + 1
    /\ \E c \in HandLedgers(nxt.seats, MaxContrib) :
       \E co \in HandCollects(nxt.seats, SumSizes(BuildPots(c))) :
          /\ contrib' = c
          /\ collects' = co
          /\ pots' \in AssignWinners(BuildPots(c), co)
    /\ pc' = "loop"
    /\ UNCHANGED <<idx, eliminated, ko_count, knockouts, ts>>
    /\ UNCHANGED <<scanVars, batch, worker>>

\* the body of "for idx, hand in enumerate(hands)", lines 108-156
ProcessHand ==
    /\ pc = "loop"
    /\ LET el  == Eliminated(seats, nxt)
           kos == KoInHand(pots, el, Hero)
       IN /\ eliminated' = el
          /\ ko_count' = kos
          /\ knockouts' = knockouts \o HandKnockouts(pots, el, kos, collects, idx)
    /\ pots' = PotsAfterKo(pots)
    /\ pc' = "emitted"
    /\ UNCHANGED <<contrib, collects, seats, nxt, idx, hands_count, ts>>
    /\ UNCHANGED <<scanVars, batch, worker>>

\* line 107: the loop moves on; hand, eliminated and ko_count are rebound by
\* the next iteration, so the model forgets them here
NextHand ==
    /\ pc = "emitted"
    /\ idx' = idx + 1
    /\ seats' = {} /\ contrib' = EmptyDict /\ collects' = EmptyDict /\ pots' = <<>>
    /\ eliminated' = <<>> /\ ko_count' = 0
    /\ pc' = "hand"
    /\ UNCHANGED <<nxt, hands_count, knockouts, ts>>
    /\ UNCHANGED <<scanVars, batch, worker>>

\* return result
ReturnResult ==
    /\ pc = "hand"
    /\ ~nxt.some
    /\ pc' = "done"
    /\ UNCHANGED <<potVars, fileVars, ts>>
    /\ UNCHANGED <<scanVars, batch, worker>>

NextFile == ParseHand \/ ProcessHand \/ NextHand \/ ReturnResult

SpecFile == InitFile /\ [][NextFile]_vars

\* ================================================================== SpecRerun
\* The first iteration of the same loop, with the attribution of the hand run
\* a second time on the same hand and next hand: _eliminated, _ko_in_hand and
\* the emission of lines 132-153 once more, the facts appended after those of
\* the first run.
ReAttribute ==
    /\ pc = "emitted"
    /\ LET el  == Eliminated(seats, nxt)
           kos == KoInHand(pots, el, Hero)
       IN /\ eliminated' = el
          /\ ko_count' = kos
          /\ knockouts' = knockouts \o HandKnockouts(pots, el, kos, collects, idx)
    /\ pots' = PotsAfterKo(pots)
    /\ pc' = "reattributed"
    /\ UNCHANGED <<contrib, collects, seats, nxt, idx, hands_count, ts>>
    /\ UNCHANGED <<scanVars, batch, worker>>

NextRerun == ParseHand \/ ProcessHand \/ ReAttribute

SpecRerun == InitFile /\ [][NextRerun]_vars

\* ================================================================== SpecBounty
\* TournamentSummaryParser.parse_file from the search for the finish block
\* (line 132) on.  \d+ and [\d,.]+ parse to numbers >= 0.
PrizeSet ==
    {a * 10000 + b * 1000 + c * 100 + d * 10 + e * 2 + r :
        a \in 0..MaxDigit, b \in 0..MaxDigit, c \in 0..MaxDigit,
        d \in 0..MaxDigit, e \in 0..MaxDigit, r \in 0..1}

\* the prizes tried on a line of another player, which parse_file reads
\* exactly as it reads the hero's block
SmallPrizes == {p \in PrizeSet : p < 100}

\* the worked example of the specification: buy-in 10, 1st of 9, prize 834
Scenario == NewTs(1, 834, 10, 9)

IdleHand ==
    /\ contrib = EmptyDict /\ collects = EmptyDict /\ pots = <<>>
    /\ IdleFile

\* the correction example of the specification: no player count parsed,
\* finish place 5; buy-in and prize as in Scenario
CorrectionScenario == NewTs(5, 834, 10, 0)

InitBounty ==
    /\ pc = "text"
    /\ ts \in {Doc("hero", place, prize, b, n) :
                 place \in 0..MaxPlace, prize \in PrizeSet,
                 b \in 0..MaxBuyIn, n \in 0..MaxPlayers}
             \cup {Doc("other", place, prize, b, n) :
                 place \in 0..MaxPlace, prize \in SmallPrizes,
                 b \in 0..MaxBuyIn, n \in 0..MaxPlayers}
             \cup {Doc("none", 0, 0, b, n) : b \in 0..MaxBuyIn, n \in 0..MaxPlayers}
             \cup {Scenario, CorrectionScenario}
    /\ IdleHand
    /\ IdleScan /\ IdleBatch /\ IdleWorker

\* lines 132-153: the last hero block, else the first "N-th place ... $" line,
\* else ValueError
FindFinishBlock ==
    /\ pc = "text"
    /\ pc' = IF ts.block = "none" THEN "raised" ELSE "parsed"
    /\ UNCHANGED <<ts, potVars, fileVars>>
    /\ UNCHANGED <<scanVars, batch, worker>>

\* lines 159-179
CorrectPlayers ==
    /\ pc = "parsed"
    /\ ts' = [ts EXCEPT
                !.players  = CorrectedPlayers(ts.players_parsed, ts.finish_place),
                !.warnings = CorrectionWarnings(ts.players_parsed, ts.finish_place)]
    /\ pc' = "corrected"
    /\ UNCHANGED <<potVars, fileVars>>
    /\ UNCHANGED <<scanVars, batch, worker>>

\* lines 184-185
IsolateBounty ==
    /\ pc = "corrected"
    /\ LET base == ComputeBasePayout(ts.finish_place, ts.buy_in)
           b    == BountyTotal(ts.prize_total, base)
       IN ts' = [ts EXCEPT !.base_payout = base, !.bounty_total = b, !.rems = <<b>>]
    /\ pc' = "extract"
    /\ UNCHANGED <<potVars, fileVars>>
    /\ UNCHANGED <<scanVars, batch, worker>>

\* lines 311-315: the next _extract call of _calculate_large_knockouts
ExtractStep ==
    /\ pc = "extract"
    /\ Len(ts.k) < Len(Tiers)
    /\ LET t  == Len(ts.k) + 1
           qr == Extract(ts.rems[t], Tiers[t], ts.buy_in, MaxPossibleKos(ts.players))
       IN ts' = [ts EXCEPT !.k = Append(@, qr[1]), !.rems = Append(@, qr[2])]
    /\ pc' = "extract"
    /\ UNCHANGED <<potVars, fileVars>>
    /\ UNCHANGED <<scanVars, batch, worker>>

\* lines 190-212: TournamentSummary(...) returned unless __post_init__ raises
BuildSummary ==
    /\ pc = "extract"
    /\ Len(ts.k) = Len(Tiers)
    /\ IF PostInitOk(ts.finish_place, ts.players)
       THEN /\ ts' = [ts EXCEPT !.summary =
                        <<[finish_place |-> ts.finish_place,
                           players      |-> ts.players,
                           buy_in       |-> ts.buy_in,
                           prize_total  |-> ts.prize_total,
                           bounty_total |-> ts.bounty_total,
                           knockouts    |-> ts.k]>>]
            /\ pc' = "returned"
       ELSE /\ ts' = ts
            /\ pc' = "raised"
    /\ UNCHANGED <<potVars, fileVars>>
    /\ UNCHANGED <<scanVars, batch, worker>>

NextBounty ==
    FindFinishBlock \/ CorrectPlayers \/ IsolateBounty \/ ExtractStep \/ BuildSummary

SpecBounty == InitBounty /\ [][NextBounty]_vars

\* ================================================================== SpecDecompose
\* _calculate_large_knockouts called on its own: a static method, so bounty,
\* buy_in and players are any numbers, negative ones included.
DecomposeArgs ==
    {[NoTs EXCEPT !.bounty_total = bounty, !.rems = <<bounty>>,
                  !.buy_in = b, !.players = n] :
        bounty \in PrizeSet \cup {0 - 1},
        b \in (0 - MaxBuyIn)..MaxBuyIn,
        n \in (0 - 1)..MaxPlayers}

InitDecompose ==
    /\ pc = "extract"
    /\ ts \in DecomposeArgs
    /\ IdleHand
    /\ IdleScan /\ IdleBatch /\ IdleWorker

\* line 316: return x2, x10, x100, x1k, x10k
ReturnCounts ==
    /\ pc = "extract"
    /\ Len(ts.k) = Len(Tiers)
    /\ pc' = "decomposed"
    /\ UNCHANGED <<ts, potVars, fileVars>>
    /\ UNCHANGED <<scanVars, batch, worker>>

NextDecompose == ExtractStep \/ ReturnCounts

SpecDecompose == InitDecompose /\ [][NextDecompose]_vars

\* ================================================================== SpecActions
\* _parse_actions called on its own, from the first line it is handed to the
\* summary marker or the end of the lines, and _build_pots on the ledger it
\* returns.  The loop handles one line at a time and looks at no other, so
\* each line is drawn when the loop reaches it; pos counts the lines handled.
ActionPlayers == {"A", "C"}

Toks == {Num(n) : n \in 1..MaxAmt} \cup {BadTok}

\* the uncalled-return example of the specification
UncalledScenario == UncalledLine("C", Num(50))

ActionLines ==
    {UncalledLine(p, a) : p \in ActionPlayers, a \in Toks}
    \cup {ActLine(p, act, a) :
             p \in ActionPlayers, act \in AddingActs, a \in Toks \cup {NoTok}}
    \cup {GluedLine(p, act, a) :
             p \in ActionPlayers, act \in AddingActs \cup {"raises"}, a \in Toks}
    \cup {RaiseLine(p, x, y) :
             p \in ActionPlayers, x \in Toks \cup {NoTok}, y \in Toks \cup {NoTok}}
    \cup {ActLine(p, act, NoTok) : p \in ActionPlayers, act \in {"checks", "folds"}}
    \cup {Marker("other"), UncalledScenario}

InitActions ==
    /\ pc = "actions"
    /\ pos = 0 /\ line = NoLine
    /\ contrib = EmptyDict /\ committed = EmptyDict
    /\ collects = EmptyDict /\ pots = <<>>
    /\ lines = <<>> /\ hands = <<>>
    /\ IdleFile /\ ts = NoTs /\ IdleBatch /\ IdleWorker

\* lines 253-285: the loop body on the next line
ReadActionLine ==
    /\ pc = "actions"
    /\ pos < MaxLines
    /\ \E l \in ActionLines :
          LET r == ParseActionsLine(l, contrib, committed)
          IN /\ line' = l
             /\ contrib' = r.contrib
             /\ committed' = r.committed
             /\ pos' = IF r.raised THEN pos ELSE pos + 1
             /\ pc' = IF r.raised THEN "raised" ELSE "actions"
    /\ UNCHANGED <<collects, pots, fileVars, ts, lines, hands, batch, worker>>

\* lines 253 and 287: the summary marker or the end of the lines is reached
ReturnContrib ==
    /\ pc = "actions"
    /\ pc' = "ledger"
    /\ UNCHANGED <<potVars, fileVars, ts, scanVars, batch, worker>>

NextActions == ReadActionLine \/ ReturnContrib \/ BuildPotsStep

SpecActions == InitActions /\ [][NextActions]_vars

\* ================================================================== SpecHand
\* HandHistoryParser.parse_file on the text of a file: _parse_file and
\* _parse_hand scan the lines (pos is the code's index plus one), then the
\* loop of parse_file runs over the hands built.
\*
\* A hand text is the header, the seat lines, the hole-cards marker, the lines
\* before the showdown marker, that marker (absent when nobody shows), the
\* lines after it, the summary marker, the total-pot line and a blank line.
Chips == Num(100)

SeatLines(S) ==
    LET order == InSeatOrder(S)
    IN [i \in 1..Len(order) |-> SeatLine(order[i], Chips)]

HandText(S, pre, showdown, post) ==
    <<Marker("header")>> \o SeatLines(S) \o <<Marker("hole")>> \o pre
        \o (IF showdown THEN <<Marker("showdown")>> ELSE <<>>) \o post
        \o <<Marker("summary"), Marker("other"), Marker("blank")>>

\* the round-trip example of the specification: A posts 100, B posts 100 and
\* is all-in, A collects 200
PotScenario ==
    HandText({"A", "B"},
             <<ActLine("A", "posts", Num(100)), ActLine("B", "posts", Num(100))>>,
             TRUE,
             <<CollectedLine("A", Num(200))>>)

\* the same with the hero in A's place and A in B's, followed by a hand in
\* which A no longer sits
KnockoutScenario ==
    HandText({Hero, "A"},
             <<ActLine(Hero, "posts", Num(100)), ActLine("A", "posts", Num(100))>>,
             TRUE,
             <<CollectedLine(Hero, Num(200))>>)
        \o HandText({Hero, "B"}, <<>>, FALSE, <<>>)

\* a hand whose first seat line has a chip count of separators only
MalformedSeatScenario ==
    <<Marker("header"), SeatLine("A", BadTok), SeatLine("B", Chips), Marker("hole"),
      Marker("summary"), Marker("other"), Marker("blank")>>

\* the lines a generated hand may hold before and after the showdown marker,
\* well-formed or with an amount of separators only
BodyLines(S) ==
    UNION {{ActLine(p, "posts", Num(a)), RaiseLine(p, Num(a), Num(a)),
            UncalledLine(p, Num(a)), CollectedLine(p, Num(a))} :
              p \in S, a \in 1..MaxAmt}
    \cup UNION {{GluedLine(p, "bets", BadTok), UncalledLine(p, BadTok),
                 CollectedLine(p, BadTok)} : p \in S}

UpToOne(L) == {<<>>} \cup {<<l>> : l \in L}

\* one hand with at most one line on each side of the showdown marker, alone
\* or followed by a hand that some of its players have left
FirstHands(S) ==
    {HandText(S, pre, sd, post) :
        pre \in UpToOne(BodyLines(S)), sd \in BOOLEAN, post \in UpToOne(BodyLines(S))}

Files(tables) ==
    UNION {{h \o rest : h \in FirstHands(S),
                        rest \in {<<>>} \cup {HandText(T, <<>>, FALSE, <<>>) :
                                                T \in {S, S \ {"A"}, {Hero}}}} :
              S \in tables}
    \cup {PotScenario, KnockoutScenario, MalformedSeatScenario}

\* Hand.__init__
Hand(s, c, co, ps) == [seats |-> s, contrib |-> c, collects |-> co, pots |-> ps]

InitHand ==
    /\ pc = "file"
    /\ lines \in Files({{Hero, "A"}, {Hero, "A", "B"}})
    /\ pos = 1
    /\ line = NoLine
    /\ committed = EmptyDict
    /\ hands = <<>>
    /\ contrib = EmptyDict /\ collects = EmptyDict /\ pots = <<>>
    /\ IdleFile /\ ts = NoTs /\ IdleBatch /\ IdleWorker

\* _parse_file, lines 174-180, and parse_file, line 104
FindHand ==
    /\ pc = "file"
    /\ IF pos > Len(lines)
       THEN /\ pc' = "hand"
            /\ hands_count' = Len(hands)
            /\ nxt' = IF hands = <<>> THEN NoHand ELSE SomeHand(hands[1].seats)
            /\ UNCHANGED <<pos, seats>>
       ELSE IF lines[pos].kind = "header"
       THEN /\ pc' = "seats"
            /\ pos' = pos + 1
            /\ seats' = {}
            /\ UNCHANGED <<hands_count, nxt>>
       ELSE /\ pc' = "file"
            /\ pos' = pos + 1
            /\ UNCHANGED <<hands_count, nxt, seats>>
    /\ UNCHANGED <<potVars, idx, eliminated, ko_count, knockouts, ts,
                   lines, line, committed, hands, batch, worker>>

\* _parse_hand, lines 198-203: one line of the seat loop
ReadSeat ==
    /\ pc = "seats"
    /\ IF pos > Len(lines) \/ lines[pos].kind = "hole"
       THEN pc' = "skip" /\ UNCHANGED <<pos, seats>>
       ELSE IF lines[pos].kind = "seat"
       THEN IF ChipRaises(lines[pos].amt)
            THEN pc' = "raised" /\ UNCHANGED <<pos, seats>>
            ELSE /\ seats' = seats \cup {lines[pos].p}
                 /\ pos' = pos + 1
                 /\ pc' = "seats"
       ELSE pos' = pos + 1 /\ pc' = "seats" /\ UNCHANGED seats
    /\ UNCHANGED <<potVars, nxt, idx, hands_count, eliminated, ko_count,
                   knockouts, ts, lines, line, committed, hands, batch, worker>>

\* _parse_hand, lines 206-210: one line of the skip that precedes
\* _parse_actions; it stops at the showdown or the summary marker
SkipToShowdown ==
    /\ pc = "skip"
    /\ IF pos > Len(lines) \/ lines[pos].kind \in {"showdown", "summary"}
       THEN /\ pc' = "actions"
            /\ contrib' = EmptyDict /\ committed' = EmptyDict
            /\ UNCHANGED pos
       ELSE /\ pc' = "skip"
            /\ pos' = pos + 1
            /\ UNCHANGED <<contrib, committed>>
    /\ UNCHANGED <<collects, pots, fileVars, ts, lines, line, hands, batch, worker>>

\* _parse_actions, lines 253-287, on the text: one line of its loop
ScanActionLine ==
    /\ pc = "actions"
    /\ IF pos > Len(lines) \/ lines[pos].kind = "summary"
       THEN pc' = "collects" /\ UNCHANGED <<pos, line, contrib, committed>>
       ELSE LET r == ParseActionsLine(lines[pos], contrib, committed)
            IN /\ line' = lines[pos]
               /\ contrib' = r.contrib
               /\ committed' = r.committed
               /\ pos' = IF r.raised THEN pos ELSE pos + 1
               /\ pc' = IF r.raised THEN "raised" ELSE "actions"
    /\ UNCHANGED <<collects, pots, fileVars, ts, lines, hands, batch, worker>>

\* lines 218-224: the search for "collected" lines from index i up to the
\* summary marker; co is collects so far
RECURSIVE CollectsFrom(_, _, _)
CollectsFrom(ls, i, co) ==
    IF i > Len(ls) \/ ls[i].kind = "summary"
    THEN [collects |-> co, raised |-> FALSE]
    ELSE IF ls[i].kind = "collected"
    THEN IF ChipRaises(ls[i].amt)
         THEN [collects |-> co, raised |-> TRUE]
         ELSE CollectsFrom(ls, i + 1,
                           Put(co, ls[i].p, Get(co, ls[i].p, 0) + Chip(ls[i].amt)))
    ELSE CollectsFrom(ls, i + 1, co)

\* lines 227-228 and 229-230: past the non-blank lines, then past the blank ones
RECURSIVE SkipNonBlank(_, _)
SkipNonBlank(ls, i) ==
    IF i <= Len(ls) /\ ls[i].kind # "blank" THEN SkipNonBlank(ls, i + 1) ELSE i

RECURSIVE SkipBlank(_, _)
SkipBlank(ls, i) ==
    IF i <= Len(ls) /\ ls[i].kind = "blank" THEN SkipBlank(ls, i + 1) ELSE i

\* _parse_hand, lines 216-230: the collections are searched from the index
\* _parse_actions returned, then the summary block is skipped
CollectAndSkip ==
    /\ pc = "collects"
    /\ LET r == CollectsFrom(lines, pos, EmptyDict)
       IN /\ collects' = r.collects
          /\ IF r.raised
             THEN pc' = "raised" /\ UNCHANGED pos
             ELSE pc' = "build" /\ pos' = SkipBlank(lines, SkipNonBlank(lines, pos))
    /\ UNCHANGED <<contrib, pots, fileVars, ts, lines, line, committed, hands, batch, worker>>

\* _parse_hand, lines 233-236, and _parse_file, line 177
BuildHand ==
    /\ pc = "build"
    /\ \E ps \in AssignWinners(BuildPots(contrib), collects) :
          /\ pots' = ps
          /\ hands' = Append(hands, Hand(seats, contrib, collects, ps))
    /\ pc' = "file"
    /\ UNCHANGED <<contrib, collects, fileVars, ts, lines, pos, line, committed, batch, worker>>

\* parse_file, lines 107-108: hand = hands[idx], next_hand = hands[idx+1] or None
LoadHand ==
    /\ pc = "hand"
    /\ idx < Len(hands)
    /\ LET hand == hands[idx + 1]
       IN /\ seats' = hand.seats
          /\ contrib' = hand.contrib
          /\ collects' = hand.collects
          /\ pots' = hand.pots
    /\ nxt' = IF idx + 2 <= Len(hands) THEN SomeHand(hands[idx + 2].seats) ELSE NoHand
    /\ pc' = "loop"
    /\ UNCHANGED <<idx, hands_count, eliminated, ko_count, knockouts, ts,
                   scanVars, batch, worker>>

NextText ==
    \/ FindHand \/ ReadSeat \/ SkipToShowdown \/ ScanActionLine
    \/ CollectAndSkip \/ BuildHand
    \/ LoadHand \/ ProcessHand \/ NextHand \/ ReturnResult

SpecHand == InitHand /\ [][NextText]_vars

\* ================================================================== SpecBatch
\* A batch run: MainWindow.process_files (ui/main_window.py), which the user
\* may cancel at any moment, or
\* HandHistoryParser.get_knockouts_from_multiple_files over a list of
\* documents.  A document is given by its type as the first pass sees it and by
\* what happens when it is handled:
\*   parse  "ok" or "raises": the parser's parse_file returns or raises;
\*   save   "ok" or "raises": save_tournament_data / save_knockouts_data
\*          returns or raises; "none" when nothing is saved (finish place >= 10,
\*          or no tournament id or no knockouts);
\*   aux    "ok" or "raises": the update that follows the insert (the place
\*          distribution inside save_tournament_data, the average stack in
\*          process_files), whose exception is caught on the spot.
Document(type, parse, save, aux) ==
    [type |-> type, parse |-> parse, save |-> save, aux |-> aux]

Outcomes ==
    {<<"raises", "none", "ok">>, <<"ok", "none", "ok">>, <<"ok", "raises", "ok">>,
     <<"ok", "ok", "ok">>, <<"ok", "ok", "raises">>}

Documents ==
    {Document(type, o[1], o[2], o[3]) : type \in {"summary", "history"}, o \in Outcomes}
    \cup {Document("unknown", "ok", "none", "ok")}

Batches == UNION {[1..n -> Documents] : n \in 0..MaxDocs}

\* the indices of the documents of a type, in the order of the list
OfType(docs, type) ==
    LET pick[i \in 0..Len(docs)] ==
            IF i = 0 THEN <<>>
            ELSE IF docs[i].type = type THEN Append(pick[i - 1], i) ELSE pick[i - 1]
    IN pick[Len(docs)]

InitBatch ==
    /\ \/ pc = "classify" /\ batch \in {NewBatch("process_files", d) : d \in Batches}
       \/ pc = "multi" /\ batch \in {NewBatch("multiple_files", d) : d \in Batches}
    /\ IdleHand /\ IdleScan /\ ts = NoTs /\ IdleWorker

\* Worker.cancel, line 115, from the interface thread: self.is_cancelled = True
Cancel ==
    /\ pc \in {"classify", "summaries", "histories", "stats"}
    /\ ~batch.cancel
    /\ batch' = [batch EXCEPT !.cancel = TRUE]
    /\ UNCHANGED <<pc, potVars, fileVars, ts, scanVars, worker>>

\* ReturnCancelled with a slip: the result is returned without the mark
ReturnCancelled_Unmarked(b) == b

\* "results['cancelled'] = True; return results" (lines 671, 717-718, 756-757)
ReturnCancelled(b) == [b EXCEPT !.cancelled = TRUE]

\* process_files, lines 668-699: the first pass sorts the paths by type, or
\* returns once it sees the flag set
Classify ==
    /\ pc = "classify"
    /\ IF batch.cancel
       THEN batch' = ReturnCancelled(batch) /\ pc' = "returned"
       ELSE /\ batch' = [batch EXCEPT !.ts_files = OfType(batch.docs, "summary"),
                                      !.hh_files = OfType(batch.docs, "history")]
            /\ pc' = "summaries"
    /\ UNCHANGED <<potVars, fileVars, ts, scanVars, worker>>

\* one document handled inside "try: ... except Exception as e:
\* results['errors'].append(err_msg)": parsed, then saved unless there is
\* nothing to save, then the update whose exception is caught where it occurs
Handled(b, d) ==
    LET doc == b.docs[d]
        b1  == [b EXCEPT !.parsed = Append(@, d), !.i = @ + 1]
    IN IF doc.parse = "raises" THEN [b1 EXCEPT !.errors = Append(@, d)]
       ELSE IF doc.save = "none" THEN b1
       ELSE IF doc.save = "raises" THEN [b1 EXCEPT !.errors = Append(@, d)]
       ELSE IF doc.aux = "raises"
            THEN [b1 EXCEPT !.saved = @ \cup {d}, !.logged = @ \cup {d}]
       ELSE [b1 EXCEPT !.saved = @ \cup {d}]

\* process_files, lines 715-748: one iteration of the loop over the summaries
ProcessSummary ==
    /\ pc = "summaries"
    /\ IF batch.i > Len(batch.ts_files)
       THEN batch' = [batch EXCEPT !.i = 1] /\ pc' = "histories"
       ELSE IF batch.cancel
       THEN batch' = ReturnCancelled(batch) /\ pc' = "returned"
       ELSE batch' = Handled(batch, batch.ts_files[batch.i]) /\ pc' = "summaries"
    /\ UNCHANGED <<potVars, fileVars, ts, scanVars, worker>>

\* process_files, lines 754-813: one iteration of the loop over the histories
ProcessHistory ==
    /\ pc = "histories"
    /\ IF batch.i > Len(batch.hh_files)
       THEN UNCHANGED batch /\ pc' = "stats"
       ELSE IF batch.cancel
       THEN batch' = ReturnCancelled(batch) /\ pc' = "returned"
       ELSE batch' = Handled(batch, batch.hh_files[batch.i]) /\ pc' = "histories"
    /\ UNCHANGED <<potVars, fileVars, ts, scanVars, worker>>

\* process_files, lines 816-827: unless the flag is set, the statistics
\* update, which returns or raises; then "return results"
UpdateStats ==
    /\ pc = "stats"
    /\ IF batch.cancel
       THEN UNCHANGED batch
       ELSE \/ batch' = [batch EXCEPT !.stats = TRUE]
            \/ batch' = [batch EXCEPT !.errors = Append(@, 0)]
    /\ pc' = "returned"
    /\ UNCHANGED <<potVars, fileVars, ts, scanVars, worker>>

\* get_knockouts_from_multiple_files, lines 417-424: one iteration of
\* "try: result = self.parse_file(file_path) ... except Exception as e:
\* print(...)", or "return all_knockouts"
ParseNextFile ==
    /\ pc = "multi"
    /\ IF batch.i > Len(batch.docs)
       THEN UNCHANGED batch /\ pc' = "returned"
       ELSE /\ batch' = [batch EXCEPT
                           !.parsed = Append(@, batch.i),
                           !.i = @ + 1,
                           !.logged = IF batch.docs[batch.i].parse = "raises"
                                      THEN @ \cup {batch.i} ELSE @]
            /\ pc' = "multi"
    /\ UNCHANGED <<potVars, fileVars, ts, scanVars, worker>>

NextBatch ==
    \/ Classify \/ ProcessSummary \/ ProcessHistory \/ UpdateStats \/ ParseNextFile
    \/ Cancel

SpecBatch == InitBatch /\ [][NextBatch]_vars

\* ================================================================== SpecWorker
\* Worker.run (ui/main_window.py, lines 81-109) in a thread of the pool and
\* Worker.cancel (lines 111-117) called from the interface thread, interleaved
\* statement by statement.  The task function fn is any callable: it may emit
\* progress signals through worker_signals, and it returns, raises an
\* Exception, or raises something "except Exception" does not catch.
\* worker.at_return tells how the flag stood when fn returned.
Emit(w, signal) == [w EXCEPT !.emitted = Append(@, signal)]

\* EmitsResult with a slip: the flag is not looked at
EmitsResult_Always(is_cancelled) == TRUE

\* line 96: if not self.is_cancelled
EmitsResult(is_cancelled) == ~is_cancelled

IdleRest ==
    /\ IdleHand /\ IdleScan /\ IdleBatch /\ ts = NoTs

InitWorker ==
    /\ pc = "run"
    /\ worker = NewWorker
    /\ IdleRest

\* line 86: self.signals.started.emit()
EmitStarted ==
    /\ pc = "run"
    /\ worker' = Emit(worker, "started")
    /\ pc' = "task"
    /\ UNCHANGED <<potVars, fileVars, ts, scanVars, batch>>

\* line 94, inside fn: progress_signal.emit(...)
EmitProgress ==
    /\ pc = "task"
    /\ worker.progress < MaxProgress
    /\ worker' = [Emit(worker, "progress") EXCEPT !.progress = @ + 1]
    /\ UNCHANGED <<pc, potVars, fileVars, ts, scanVars, batch>>

\* line 94: fn returns its result
TaskReturns ==
    /\ pc = "task"
    /\ worker' = [worker EXCEPT !.at_return =
                     IF worker.is_cancelled THEN "set" ELSE "clear"]
    /\ pc' = "check"
    /\ UNCHANGED <<potVars, fileVars, ts, scanVars, batch>>

\* line 94: fn raises; an Exception goes to the handler of line 102, anything
\* else straight to the finally clause
TaskRaises ==
    /\ pc = "task"
    /\ worker' = [worker EXCEPT !.at_return = "raised"]
    /\ pc' \in {"except", "finally"}
    /\ UNCHANGED <<potVars, fileVars, ts, scanVars, batch>>

\* line 96: the flag is read
CheckCancelled ==
    /\ pc = "check"
    /\ pc' = IF EmitsResult(worker.is_cancelled) THEN "emit_result" ELSE "finally"
    /\ UNCHANGED <<worker, potVars, fileVars, ts, scanVars, batch>>

\* line 97: self.signals.result.emit(result)
EmitResult ==
    /\ pc = "emit_result"
    /\ worker' = Emit(worker, "result")
    /\ pc' = "finally"
    /\ UNCHANGED <<potVars, fileVars, ts, scanVars, batch>>

\* line 105: self.signals.error.emit(str(e))
EmitError ==
    /\ pc = "except"
    /\ worker' = Emit(worker, "error")
    /\ pc' = "finally"
    /\ UNCHANGED <<potVars, fileVars, ts, scanVars, batch>>

\* line 108: self.signals.finished.emit()
EmitFinished ==
    /\ pc = "finally"
    /\ worker' = Emit(worker, "finished")
    /\ pc' = "ran"
    /\ UNCHANGED <<potVars, fileVars, ts, scanVars, batch>>

\* line 115, in the interface thread: self.is_cancelled = True
SetCancelled ==
    /\ pc \in {"run", "task", "check", "emit_result", "except", "finally", "ran"}
    /\ ~worker.in_cancel
    /\ worker.cancels < MaxCancels
    /\ worker' = [worker EXCEPT !.is_cancelled = TRUE,
                                !.in_cancel = TRUE,
                                !.cancels = @ + 1]
    /\ UNCHANGED <<pc, potVars, fileVars, ts, scanVars, batch>>

\* line 116: self.signals.cancel.emit()
EmitCancel ==
    /\ worker.in_cancel
    /\ worker' = [Emit(worker, "cancel") EXCEPT !.in_cancel = FALSE]
    /\ UNCHANGED <<pc, potVars, fileVars, ts, scanVars, batch>>

RunStep ==
    \/ EmitStarted \/ EmitProgress \/ TaskReturns \/ TaskRaises
    \/ CheckCancelled \/ EmitResult \/ EmitError \/ EmitFinished

NextWorker == RunStep \/ SetCancelled \/ EmitCancel

SpecWorker == InitWorker /\ [][NextWorker]_vars

\* ================================================================== claims
\* ------------------------------------------------------------------ C1
PositivePart(d) == [p \in DOMAIN d |-> Max2(d[p], 0)]

\* C1 as stated: for every contribution ledger, zero and negative entries
\* included, the sizes of the pots _build_pots returns add up to the sum of
\* all contribution values.
C1_ConservationAllEntries ==
    pc = "built" => SumSizes(pots) = SumDict(contrib)

\* C1 amended: the sizes of the pots add up to the sum of the positive
\* contribution values, which is the sum of all values when none is negative.
C1_ConservationPositiveEntries ==
    pc = "built" =>
        /\ SumSizes(pots) = SumDict(PositivePart(contrib))
        /\ (\A p \in DOMAIN contrib : contrib[p] >= 0)
              => SumSizes(pots) = SumDict(contrib)

\* pots built from a ledger holding a positive, a zero and a negative entry
C1_Witness ==
    /\ pc = "built"
    /\ Len(pots) >= 1
    /\ \E p \in DOMAIN contrib : contrib[p] < 0
    /\ \E p \in DOMAIN contrib : contrib[p] = 0

\* ------------------------------------------------------------------ C2
\* C2: after _assign_winners, every pot of positive size with a non-empty
\* eligible set has a non-empty winners set, whatever was collected.
C2_WinnersNonEmpty ==
    pc = "assigned" =>
        \A i \in DOMAIN pots :
            (pots[i].size > 0 /\ pots[i].eligible # {}) => pots[i].winners # {}

\* nothing was collected, and two pots of positive size have a winner each
C2_Witness ==
    /\ pc = "assigned"
    /\ DOMAIN collects = {}
    /\ Len(pots) = 2
    /\ \A i \in DOMAIN pots :
          pots[i].size > 0 /\ pots[i].eligible # {} /\ pots[i].winners # {}

\* ------------------------------------------------------------------ C3
\* an ordinary hand: the pots were collected in full, by players who had put
\* chips in, and the hero sits in the next hand
OrdinaryHand ==
    /\ nxt.some
    /\ Hero \in nxt.seats
    /\ DOMAIN collects \subseteq DOMAIN contrib
    /\ SumDict(collects) = SumSizes(pots)

\* the hero is a winner of the first pot, in ascending eligible-set size, that
\* p is eligible for
HeroWonSmallestPot(p) ==
    /\ PlayerPot(pots, p) # 0
    /\ Hero \in pots[PlayerPot(pots, p)].winners

\* the facts of result['knockouts'] that hand idx produced for player p
FactsNaming(p) ==
    {i \in DOMAIN knockouts :
        knockouts[i].hand_id = idx /\ knockouts[i].knocked_out_player = p}

C6_EliminationDetection ==
    /\ pc = "emitted" =>
          /\ nxt.some =>
                /\ {eliminated[i] : i \in DOMAIN eliminated} = seats \ nxt.seats
                /\ Len(eliminated) = Cardinality(seats \ nxt.seats)
          /\ ~nxt.some =>
                /\ eliminated = <<>>
                /\ \A i \in DOMAIN knockouts : knockouts[i].hand_id # idx
    /\ pc = "done" =>
          \A i \in DOMAIN knockouts : knockouts[i].hand_id # hands_count - 1

\* the last hand of a file of two, won by the hero against another player,
\* after an earlier hand produced a fact
C6_Witness ==
    /\ pc = "emitted"
    /\ ~nxt.some
    /\ idx = 1
    /\ knockouts # <<>>
    /\ \E i \in DOMAIN pots :
          Hero \in pots[i].winners /\ pots[i].eligible \ {Hero} # {}

\* ------------------------------------------------------------------ C7
IsScenario ==
    /\ ts.finish_place = 1 /\ ts.buy_in = 10
    /\ ts.players_parsed = 9 /\ ts.prize_total = 834

\* C7 as stated: the scenario yields base payout 40, bounty 794 and
\* x10000 = 0, x1000 = 0, x100 = 7, x10 = 8, x2 = 7.
C7_ScenarioAsStated ==
    (pc = "returned" /\ IsScenario) =>
        /\ ts.base_payout = 40
        /\ ts.bounty_total = 794
        /\ ts.k = <<0, 0, 7, 8, 7>>

\* C7 amended: the scenario yields base payout 40, bounty 794 and
\* x10000 = 0, x1000 = 0, x100 = 0, x10 = 7, x2 = 4 (one x100 knockout costs
\* 10 * 100 = 1000, more than the bounty; x10 is below the clamp of 8).
C7_ScenarioComputed ==
    (pc = "returned" /\ IsScenario) =>
        /\ ts.base_payout = 40
        /\ ts.bounty_total = 794
        /\ ts.players = 9
        /\ ts.k = <<0, 0, 0, 7, 4>>
        /\ ts.summary[1].knockouts = ts.k

C7_Witness == pc = "returned" /\ IsScenario /\ Len(ts.summary) = 1

\* ------------------------------------------------------------------ C8
\* the tiers in the order the claim gives them
ClaimTiers == <<10000, 1000, 100, 10, 2>>

\* tier t took min(floor(remaining / price), cap) and subtracted it
GreedyStep(t, cap) ==
    LET price == ts.buy_in * ClaimTiers[t]
    IN /\ ts.k[t] = Min2(ts.rems[t] \div price, cap)
       /\ ts.rems[t + 1] = ts.rems[t] - ts.k[t] * price

\* C8 as stated: with buy-in > 0, each tier's count is
\* min(floor(remaining / (buy-in * multiplier)), player count - 1), for every
\* player count.
C8_GreedyAsStated ==
    ts.buy_in > 0 => \A t \in DOMAIN ts.k : GreedyStep(t, ts.players - 1)

\* C8 amended: the clamp is max(player count - 1, 0), never negative.
C8_GreedyClampedAtZero ==
    ts.buy_in > 0 =>
        /\ \A t \in DOMAIN ts.k : GreedyStep(t, Max2(ts.players - 1, 0))
        /\ Len(ts.rems) = Len(ts.k) + (IF \/ pc \in {"text", "parsed", "corrected"}
                                          \/ pc = "raised" /\ ts.block = "none"
                                       THEN 0 ELSE 1)

\* all five tiers done, one of them clamped, a smaller one taken after it
C8_Witness ==
    /\ pc = "returned"
    /\ ts.buy_in > 0
    /\ \E t \in DOMAIN ts.k :
          /\ ts.rems[t] \div (ts.buy_in * ClaimTiers[t]) > ts.k[t]
          /\ ts.k[t] > 0
          /\ \E u \in DOMAIN ts.k : u > t /\ ts.k[u] > 0

\* ------------------------------------------------------------------ C9
RECURSIVE Consumed(_)
Consumed(t) ==
    IF t = 0 THEN 0
    ELSE ts.k[t] * (ts.buy_in * ClaimTiers[t]) + Consumed(t - 1)

\* C9: the remaining bounty is never negative after an extraction step, and
\* the counts multiplied back out never exceed the bounty.
C9_NeverOverdrawn ==
    /\ \A i \in DOMAIN ts.rems : ts.rems[i] >= 0
    /\ Consumed(Len(ts.k)) <= ts.bounty_total

C9_Witness ==
    /\ pc = "returned"
    /\ Len(ts.k) = 5
    /\ Consumed(5) > 0
    /\ Consumed(5) < ts.bounty_total
    /\ \E t \in DOMAIN ts.k : ts.k[t] > 0 /\ ts.rems[t + 1] > 0

\* ------------------------------------------------------------------ C10
\* C10: every returned summary has 1 <= finish place <= player count and each
\* of its five counts in 0 .. player count - 1.
C10_SummaryRanges ==
    \A i \in DOMAIN ts.summary :
        LET f == ts.summary[i]
        IN /\ 1 <= f.finish_place
           /\ f.finish_place <= f.players
           /\ Len(f.knockouts) = 5
           /\ \A t \in DOMAIN f.knockouts :
                 0 <= f.knockouts[t] /\ f.knockouts[t] <= f.players - 1

\* a summary returned after the player count was corrected upward, with a
\* knockout counted
C10_Witness ==
    /\ pc = "returned"
    /\ Len(ts.summary) = 1
    /\ ts.players_parsed < ts.finish_place
    /\ ts.summary[1].players = ts.finish_place
    /\ \E t \in 1..5 : ts.summary[1].knockouts[t] > 0

\* ------------------------------------------------------------------ C11
\* the parsed player count is zero or smaller than the finish place
CountTooSmall ==
    ts.players_parsed = 0 \/ ts.players_parsed < ts.finish_place

\* the correction was made, with a warning, and every tier extracted so far
\* was clamped at finish place - 1
CorrectedToPlace ==
    /\ ts.players = ts.finish_place
    /\ ts.warnings >= 1
    /\ \A t \in DOMAIN ts.k :
          /\ ts.k[t] <= ts.finish_place - 1
          /\ ts.buy_in > 0 => GreedyStep(t, ts.finish_place - 1)

\* C11 as stated: whenever the parsed player count is zero or smaller than
\* the finish place, the count becomes the finish place, a warning is
\* recorded, the document is not failed, and the decomposition clamps at
\* finish place - 1.
C11_CorrectionAsStated ==
    (ts.block # "none" /\ pc \notin {"text", "parsed"} /\ CountTooSmall) =>
        /\ pc # "raised"
        /\ CorrectedToPlace

\* C11 amended: the same for a finish place of at least 1; a block reading
\* "0th" with no player count leaves the count at 0, the clamp at 0, and the
\* document fails in TournamentSummary.__post_init__.
C11_CorrectionForValidPlace ==
    /\ (ts.block # "none" /\ pc \notin {"text", "parsed"} /\ CountTooSmall
            /\ ts.finish_place >= 1) =>
          /\ pc # "raised"
          /\ CorrectedToPlace
    /\ (ts.block # "none" /\ ts.finish_place = 0) =>
          /\ pc # "returned"
          /\ \A t \in DOMAIN ts.k : ts.k[t] = 0

\* the example: no player count, finish place 5, two tiers clamped at 4
C11_Witness ==
    /\ pc = "returned"
    /\ ts.players_parsed = 0 /\ ts.finish_place = 5
    /\ ts.players = 5 /\ ts.warnings = 1
    /\ ts.summary[1].players = 5
    /\ ts.k = <<0, 0, 0, 4, 4>>

\* ------------------------------------------------------------------ C12
\* C12: with a buy-in of zero or less, _calculate_large_knockouts returns 0
\* for each of the five counts, for every bounty and player count, and the
\* remaining bounty is left as it was (nothing is divided).
C12_NoBuyInAllZero ==
    ts.buy_in <= 0 =>
        /\ \A t \in DOMAIN ts.k : ts.k[t] = 0
        /\ \A i \in DOMAIN ts.rems : ts.rems[i] = ts.bounty_total
        /\ pc = "decomposed" => Len(ts.k) = 5

\* the five counts returned for a negative buy-in, a positive bounty and
\* more than one player
C12_Witness ==
    /\ pc = "decomposed"
    /\ ts.buy_in < 0
    /\ ts.bounty_total > 0
    /\ ts.players > 1
    /\ ts.k = <<0, 0, 0, 0, 0>>

\* ------------------------------------------------------------------ C13
\* the schedule of the claim: 4, 3, 2 buy-ins for places 1, 2, 3
Schedule == <<4, 3, 2>>

ScheduledPayout ==
    IF ts.finish_place \in DOMAIN Schedule
    THEN Schedule[ts.finish_place] * ts.buy_in
    ELSE 0

\* C13: the bounty handed to the extraction is max(prize - base payout, 0),
\* the base payout being 4, 3, 2 buy-ins for places 1, 2, 3 and 0 otherwise.
C13_BountyIsFlooredDifference ==
    Len(ts.rems) >= 1 =>
        /\ ts.base_payout = ScheduledPayout
        /\ ts.rems[1] = (IF ts.prize_total - ScheduledPayout > 0
                         THEN ts.prize_total - ScheduledPayout ELSE 0)
        /\ ts.bounty_total = ts.rems[1]

\* second place with a prize below the base payout: the bounty is floored
C13_Witness ==
    /\ pc = "extract"
    /\ ts.finish_place = 2
    /\ ts.buy_in > 0
    /\ ts.prize_total > 0
    /\ ts.prize_total < 3 * ts.buy_in
    /\ ts.rems = <<0>>

\* ------------------------------------------------------------------ C14
\* C14: a text with no finish block naming the hero fails; no summary is
\* returned for it, even when it holds a finish line of another player.
C14_NoHeroBlockIsFatal ==
    ts.block # "hero" => (pc # "returned" /\ ts.summary = <<>>)

\* ------------------------------------------------------------------ C16
\* the step is one iteration of the loop of _parse_actions, on line'
LineRead == pc = "actions" /\ pc' \in {"actions", "raised"}

\* C16: every posts, bets, calls or all-in line naming a player and an amount
\* a raises that player's contribution and committed totals by exactly a.
C16_AddsStatedAmount ==
    [][(/\ LineRead
        /\ line'.kind = "action"
        /\ line'.act \in AddingActs
        /\ line'.amt.t = "num")
       => /\ pc' = "actions"
          /\ contrib'[line'.p] = Get(contrib, line'.p, 0) + line'.amt.n
          /\ committed'[line'.p] = Get(committed, line'.p, 0) + line'.amt.n]_vars

\* ------------------------------------------------------------------ C17
\* "raises X to Y" with X and Y numbers
FullRaise(l) ==
    /\ l.kind = "action" /\ l.act = "raises" /\ ~l.glued
    /\ l.amt.t = "num" /\ l.to.t = "num"

\* a raise line whose "to" amount is missing or is not a number
RaiseWithoutTo(l) ==
    /\ l.kind = "action" /\ l.act = "raises"
    /\ l.to.t # "num"

\* C17: "raises X to Y" by P with committed total c adds Y - c to P's
\* contribution and sets P's committed total to Y; a raise line with no
\* parsable "to" amount changes neither total and the scan goes on.
C17_RaiseAddsDelta ==
    [][LineRead =>
        /\ FullRaise(line') =>
              /\ pc' = "actions"
              /\ contrib'[line'.p] =
                    Get(contrib, line'.p, 0)
                        + (line'.to.n - Get(committed, line'.p, 0))
              /\ committed'[line'.p] = line'.to.n
        /\ RaiseWithoutTo(line') =>
              /\ pc' = "actions"
              /\ contrib' = contrib
              /\ committed' = committed]_vars

C19_RoundTrip ==
    /\ (lines = PotScenario /\ Len(hands) >= 1) =>
          hands[1].pots = <<[size |-> 200, eligible |-> {"A", "B"}, winners |-> {"A"}]>>
    /\ (lines = KnockoutScenario /\ pc = "done") =>
          /\ Len(knockouts) = 1
          /\ knockouts[1].knocked_out_player = "A"
          /\ knockouts[1].multi_knockout = FALSE

\* ------------------------------------------------------------------ C20
\* the facts in result['knockouts'] that carry the identifier of hand idx
FactsOfIdx == SelectSeq(knockouts, LAMBDA f : f.hand_id = idx)

FactSet(fs, lo, hi) == {fs[i] : i \in lo..hi}

Handed(b) ==
    {d \in 1..Len(b.docs) :
        b.entry = "multiple_files" \/ b.docs[d].type \in {"summary", "history"}}

\* the documents during whose parsing or saving an exception occurs
Failing(b) ==
    {d \in Handed(b) :
        \/ b.docs[d].parse = "raises"
        \/ b.entry = "process_files" /\ b.docs[d].save = "raises"
        \/ b.entry = "process_files" /\ b.docs[d].save = "ok" /\ b.docs[d].aux = "raises"}

\* the run goes on until it returns, and by then every document handed to a
\* parser was parsed, those after a failing one included
BatchCompletes ==
    /\ pc # "returned" => ENABLED NextBatch
    /\ (pc = "returned" /\ ~batch.cancel) =>
           {batch.parsed[k] : k \in 1..Len(batch.parsed)} = Handed(batch)

\* C15: in a batch run that is not cancelled, an exception while parsing or
\* saving one document never aborts the batch: every document that follows the
\* failing one is still parsed, the failure is recorded in the error list of
\* the batch result, and the batch returns a result.
C15_FailureRecordedAndBatchCompletes ==
    /\ BatchCompletes
    /\ (pc = "returned" /\ ~batch.cancel) =>
           Failing(batch) \subseteq {batch.errors[k] : k \in 1..Len(batch.errors)}

\* ------------------------------------------------------------------ C21
\* the distinct positive contribution values, the tier of the i-th pot and the
\* tier before it (0 for the first)
PositiveTiers == {v \in {contrib[p] : p \in DOMAIN contrib} : v > 0}
TierOf(i) == CHOOSE t \in PositiveTiers : Cardinality({u \in PositiveTiers : u <= t}) = i
TierBefore(t) ==
    IF \E u \in PositiveTiers : u < t
    THEN CHOOSE u \in PositiveTiers :
             u < t /\ \A w \in PositiveTiers : w < t => w <= u
    ELSE 0
AtLeast(t) == {p \in DOMAIN contrib : contrib[p] >= t}

\* C21: for every contribution mapping the pot list has one pot per distinct
\* positive contribution value, in ascending order; the pot of tier t with
\* previous tier t' has size (t - t') * |{players with contribution >= t}| and
\* eligible set exactly those players, so the first pot built is the main pot
\* with the largest eligible set.
C21_PotLayering ==
    pc = "built" =>
        /\ Len(pots) = Cardinality(PositiveTiers)
        /\ \A i \in DOMAIN pots :
              LET t == TierOf(i)
              IN /\ pots[i].eligible = AtLeast(t)
                 /\ pots[i].size = (t - TierBefore(t)) * Cardinality(AtLeast(t))
        /\ \A i \in DOMAIN pots :
              Cardinality(pots[i].eligible) <= Cardinality(pots[1].eligible)

\* two tiers over three players, one of whom put in nothing positive
C21_Witness ==
    /\ pc = "built"
    /\ Len(pots) = 2
    /\ pots[1].size = 2 /\ pots[2].size = 1
    /\ \E p \in DOMAIN contrib : contrib[p] <= 0

\* ------------------------------------------------------------------ C22
\* the pots of the list p is eligible for, and among them the one with the
\* smallest eligible set
PotsOf(p) == {i \in DOMAIN pots : p \in pots[i].eligible}
SmallestPotOf(p) ==
    CHOOSE i \in PotsOf(p) :
        \A j \in PotsOf(p) :
            Cardinality(pots[i].eligible) <= Cardinality(pots[j].eligible)

\* a hand whose pots were built from its contributions and were collected in
\* full, by players who each put chips in and collected something
CollectedInFull ==
    /\ pc = "assigned"
    /\ Len(pots) = Len(BuildPots(contrib))
    /\ pots = [i \in DOMAIN pots |-> [BuildPots(contrib)[i] EXCEPT !.winners = pots[i].winners]]
    /\ \A p \in DOMAIN contrib : contrib[p] > 0
    /\ DOMAIN collects \subseteq DOMAIN contrib
    /\ \A p \in DOMAIN collects : collects[p] > 0
    /\ SumDict(collects) = SumSizes(pots)

PassedOver == pc = "skip" /\ pc' = "skip" /\ pos' = pos + 1

\* C23: the hand parse goes from the seats to the actions at the hole-cards
\* marker and ends the actions at the summary marker: every betting-action
\* line and every uncalled-bet-return line between the two markers, those
\* before a showdown marker included, is fed to the accumulator, none is
\* passed over.
C23_ActionsFedFromHoleCards ==
    [][PassedOver => lines[pos].kind \notin {"action", "uncalled"}]_vars

\* ------------------------------------------------------------------ C24
\* the header line of the hand the scan is in, and what the "collected" lines
\* of positions lo..hi say player p collected
HandStart == CHOOSE i \in 1..Len(lines) :
                 /\ lines[i].kind = "header" /\ i <= pos
                 /\ \A j \in 1..Len(lines) : (lines[j].kind = "header" /\ j <= pos) => j <= i

RECURSIVE CollectedBy(_, _, _)
CollectedBy(p, lo, hi) ==
    IF lo > hi THEN 0
    ELSE CollectedBy(p, lo + 1, hi)
         + (IF lines[lo].kind = "collected" /\ lines[lo].p = p THEN Chip(lines[lo].amt) ELSE 0)

\* C24: every "collected from pot" line of a hand that stands before the
\* hand's summary marker is recorded in the hand's collection ledger, the
\* amounts of one player summed; a hand in which a player collected a positive
\* amount does not end with an empty ledger.
C24_CollectedLinesRecorded ==
    [][(pc = "collects" /\ pc' = "build") =>
          \A p \in Players : Get(collects', p, 0) = CollectedBy(p, HandStart, pos)]_vars

\* ------------------------------------------------------------------ C25
\* C25: a malformed or empty amount on a seat, action, uncalled-return or
\* collected line never raises out of the hand parse: it counts as zero, the
\* remaining lines are processed and the hand is emitted.
C25_MalformedAmountNeverRaises ==
    pc # "raised"

\* ------------------------------------------------------------------ C26
\* with the flag set, a step of the run parses and saves nothing and does not
\* recompute the statistics
NothingAfterCancel ==
    batch.cancel =>
        /\ batch'.parsed = batch.parsed
        /\ batch'.saved = batch.saved
        /\ batch'.stats = batch.stats

AllParsed == {batch.parsed[k] : k \in 1..Len(batch.parsed)} = Handed(batch)

\* C26 as stated: the flag is checked before each document and never during
\* one; once it is seen set no further document is parsed or saved, the
\* statistics are not recomputed, and the returned result is marked cancelled.
C26_CancelAsStated ==
    /\ []((pc = "returned" /\ batch.cancel) => (batch.cancelled /\ ~batch.stats))
    /\ [][NothingAfterCancel]_vars

\* C26 amended: the result is marked cancelled when the flag is seen before a
\* document; when it is first seen after the last document, at the check that
\* guards the statistics update, the result is returned without the mark.
C26_CancelAtDocumentBoundaries ==
    /\ []((pc = "returned" /\ batch.cancel) =>
             (~batch.stats /\ (batch.cancelled \/ AllParsed)))
    /\ [](batch.cancelled => (batch.cancel /\ pc = "returned"))
    /\ [][NothingAfterCancel]_vars

\* cancelled in the middle: one document saved, a later one never parsed
C26_Witness ==
    /\ pc = "returned"
    /\ batch.cancelled
    /\ batch.saved # {}
    /\ ~AllParsed

\* ------------------------------------------------------------------ C27
\* C27: throughout the scan of _parse_actions, after every processed line each
\* player's contribution total equals that player's committed total; so right
\* after a "raises X to Y" line the player's contribution is exactly Y,
\* whatever the player posted, bet or called before.
C27_ContributionIsCommitted ==
    /\ [](pc \in {"actions", "raised", "ledger"} => contrib = committed)
    /\ [][(LineRead /\ FullRaise(line'))
            => (pc' = "actions" /\ contrib'[line'.p] = line'.to.n)]_vars

\* a raise to the largest amount, read as the last of the lines, while another
\* player holds a smaller total
C27_Witness ==
    /\ pc = "actions"
    /\ pos = MaxLines
    /\ FullRaise(line)
    /\ line.to.n = MaxAmt
    /\ contrib[line.p] = MaxAmt
    /\ \E q \in DOMAIN contrib : q # line.p /\ contrib[q] = 1

\* ------------------------------------------------------------------ C28
\* C28: in the pot list _build_pots returns every pot has a positive size and
\* a non-empty eligible set, and the eligible set of each pot is a proper
\* subset of that of the pot built before it; so no two pots have eligible
\* sets of the same size, and the smallest pot a player is eligible for is
\* unique.
C28_PotsStrictlyNested ==
    pc = "built" =>
        /\ \A i \in DOMAIN pots : pots[i].size > 0 /\ pots[i].eligible # {}
        /\ \A i \in DOMAIN pots :
              i > 1 => /\ pots[i].eligible \subseteq pots[i - 1].eligible
                       /\ pots[i].eligible # pots[i - 1].eligible
        /\ \A i, j \in DOMAIN pots :
              i # j => Cardinality(pots[i].eligible) # Cardinality(pots[j].eligible)
        /\ \A p \in Players :
              PotsOf(p) # {} =>
                  \A j \in PotsOf(p) :
                      j # PlayerPot(pots, p) =>
                          Cardinality(pots[j].eligible)
                              > Cardinality(pots[PlayerPot(pots, p)].eligible)

\* two pots, the main pot of all three players and a side pot of one
C28_Witness ==
    /\ pc = "built"
    /\ Len(pots) = 2
    /\ pots[1].eligible = Players
    /\ Cardinality(pots[2].eligible) = 1

\* ------------------------------------------------------------------ C29
\* C29: no emitted knockout fact names the hero as the eliminated player, and
\* every emitted fact belongs to a hand in which the hero's entry of the
\* collection ledger is positive (the fact carries that entry as pot_size);
\* this holds for every hand, those included where less was collected than
\* the pots hold and the residual rule picks a winner.
C29_FactsNeverNameHero ==
    \A i \in DOMAIN knockouts :
        /\ knockouts[i].knocked_out_player # Hero
        /\ knockouts[i].pot_size > 0

\* ------------------------------------------------------------------ C30
\* the signals run() emits for the life of the task, in the order emitted
Lifecycle ==
    SelectSeq(worker.emitted,
              LAMBDA s : s \in {"started", "result", "error", "finished"})

IsPrefix(s, t) == Len(s) <= Len(t) /\ \A i \in DOMAIN s : s[i] = t[i]

\* C30: in every run of a Worker, under any interleaving of cancel() with the
\* running task, the signals are emitted in the order started, then at most
\* one of result or error, then finished exactly once as the last signal;
\* result is never emitted when the flag is set at the moment the task
\* function returns, and finished is emitted whether the task returned,
\* raised or was cancelled.
C30_SignalOrder ==
    /\ \E whole \in {<<"started", "result", "finished">>,
                     <<"started", "error", "finished">>,
                     <<"started", "finished">>} :
          /\ IsPrefix(Lifecycle, whole)
          /\ pc = "ran" => Lifecycle = whole
    /\ (\E i \in DOMAIN worker.emitted : worker.emitted[i] = "result")
          => worker.at_return = "clear"
    /\ pc # "ran" => ENABLED RunStep

\* the task returned with the flag already set: started and finished only
C30_Witness ==
    /\ pc = "ran"
    /\ worker.at_return = "set"
    /\ worker.progress > 0
    /\ Lifecycle = <<"started", "finished">>

====
